---- MODULE Spec2Model ----
(***************************************************************************)
(* Request-governance layer of backend/app/main.py: the sliding-window     *)
(* rate limiter (rate_limiter._inner), the admin check (require_admin),    *)
(* the timing/metrics middleware (timing_and_logging), the conditional     *)
(* cache decision of list_apps and the /metrics endpoint.                  *)
(*                                                                         *)
(* Scheduling: the middleware and the async dependency _inner run on the   *)
(* event loop and contain no await between their reads and writes, so each *)
(* is one atomic step.  The sync dependency require_admin and the sync     *)
(* endpoints run in the thread pool behind an await, so other requests     *)
(* interleave between the steps of one request.                            *)
(***************************************************************************)
EXTENDS Integers, Sequences, FiniteSets, TLC

\* ---------------------------------------------------------------------
\* Bounds of the model
\* ---------------------------------------------------------------------
\* Largest value of the wall clock (datetime.utcnow), in seconds.
MaxTime == 2
\* Number of requests that enter the pipeline in one behaviour.
MaxRequests == 3
\* Configuration, scaled: the defaults of main.py lines 26-28 are 60, 120
\* and 30, each overridable from the environment by any positive integer.
RATE_LIMIT_WINDOW_SECONDS == 1
RATE_LIMIT_GET == 2
RATE_LIMIT_WRITE == 1
\* Capacity of one latency deque, scaled: deque(maxlen=500) at line 64.
LATENCY_MAXLEN == 2
\* Commits to the database in one behaviour.
MaxWrites == 2

\* Requests in flight at the same time.
Slots == {1, 2}

\* Elapsed time of a request, (time.perf_counter() - t0) * 1000.0; no
\* behaviour of the pipeline depends on its value.
Durations == {1}

\* ---------------------------------------------------------------------
\* Routes (decorators of main.py)
\* ---------------------------------------------------------------------
\* admin: Depends(require_admin) is listed; limiter: the kind passed to
\* rate_limiter, "NONE" when the route has no rate_limiter dependency.
\* FastAPI resolves the listed dependencies in order.
RouteTable ==
  [ list    |-> [method |-> "GET",  path |-> "/apps",    admin |-> FALSE, limiter |-> "GET"],
    create  |-> [method |-> "POST", path |-> "/apps",    admin |-> TRUE,  limiter |-> "WRITE"],
    metrics |-> [method |-> "GET",  path |-> "/metrics", admin |-> FALSE, limiter |-> "NONE"] ]

Routes == DOMAIN RouteTable

Kinds == {"GET", "WRITE"}

\* Values of the X-Forwarded-For header (a list of entries, <<>> when the
\* header is missing or empty) and of request.client.host ("" when missing).
XForwardedFor == { <<>>, <<"10.0.0.2", "10.0.0.1">> }
ClientHosts == { "10.0.0.1" }

_ip_from_request(xfwd, host) ==
  IF xfwd # <<>> THEN xfwd[1]
  ELSE IF host # "" THEN host ELSE "unknown"

ClientIPs == { _ip_from_request(x, h) : x \in XForwardedFor, h \in ClientHosts }

Keys == ClientIPs \X Kinds

\* key without the class: reads and writes of a client share one deque.
keyWithoutKind(ip, kind) == <<ip, "GET">>

\* key = (ip, kind), line 83
key(ip, kind) == <<ip, kind>>

\* limit with the two classes the wrong way round.
limitClassesSwapped(kind) == IF kind = "GET" THEN RATE_LIMIT_WRITE ELSE RATE_LIMIT_GET

\* limit = RATE_LIMIT_GET if kind == "GET" else RATE_LIMIT_WRITE, line 78
limit(kind) == IF kind = "GET" THEN RATE_LIMIT_GET ELSE RATE_LIMIT_WRITE

window == RATE_LIMIT_WINDOW_SECONDS

\* Evict with the boundary test turned around: an entry aged exactly one
\* window is dropped as well.
RECURSIVE EvictAtBoundary(_, _)
EvictAtBoundary(q, t) ==
  IF q # <<>> /\ (t - Head(q)) >= window THEN EvictAtBoundary(Tail(q), t) ELSE q

\* while q and (now - q[0]) > window: q.popleft()
RECURSIVE Evict(_, _)
Evict(q, t) ==
  IF q # <<>> /\ (t - Head(q)) > window THEN Evict(Tail(q), t) ELSE q

\* AtLimit off by one: the check lets one more request through.
AtLimitOffByOne(q, kind) == Len(q) > limit(kind)

\* if len(q) >= limit: raise HTTPException(429)
AtLimit(q, kind) == Len(q) >= limit(kind)

\* str.lower() on the words the model has.
Lower(w) ==
  IF w \in {"Bearer", "bearer", "BEARER"} THEN "bearer"
  ELSE IF w = "GET" THEN "get"
  ELSE IF w = "WRITE" THEN "write"
  ELSE w

\* The rejection with a detail that does not name the class.
RateLimitExceededNoClass(kind) ==
  [status_code |-> 429, detail |-> <<"Rate limit exceeded (", "", "), try later">>]

\* HTTPException(status_code=429,
\*   detail=f"Rate limit exceeded ({kind.lower()}), try later"), line 89
RateLimitExceeded(kind) ==
  [status_code |-> 429, detail |-> <<"Rate limit exceeded (", Lower(kind), "), try later">>]

\* ---------------------------------------------------------------------
\* Auth helper
\* ---------------------------------------------------------------------
\* The Authorization header after authorization.split(): a list of words.
Authorizations == { <<>>, <<"Bearer", "secret">>, <<"bearer", "wrong">> }

AdminTokens == { "", "secret" }

\* TRUE when require_admin returns, FALSE when it raises HTTPException(401).
require_admin(token, parts) ==
  IF token = "" THEN TRUE
  ELSE Len(parts) = 2 /\ Lower(parts[1]) = "bearer" /\ parts[2] = token

\* ---------------------------------------------------------------------
\* Metrics storage
\* ---------------------------------------------------------------------
\* The status codes the modelled routes answer with.
StatusList == << 200, 201, 304, 400, 401, 409, 429, 500 >>
Statuses == { StatusList[i] : i \in 1..Len(StatusList) }

\* (method, path) of the routes; (method, path, status) of their answers.
LatencyKeys == { <<RouteTable[r].method, RouteTable[r].path>> : r \in Routes }
CounterKeys == { <<k[1], k[2], st>> : k \in LatencyKeys, st \in Statuses }

\* AppendBounded on a deque made without maxlen.
AppendUnbounded(q, x) == Append(q, x)

\* request_duration_ms[k].append(dt_ms) on a deque(maxlen=LATENCY_MAXLEN)
AppendBounded(q, x) ==
  IF Len(q) >= LATENCY_MAXLEN THEN Append(Tail(q), x) ELSE Append(q, x)

RECURSIVE Sum(_)
Sum(q) == IF q = <<>> THEN 0 ELSE Head(q) + Sum(Tail(q))

\* sum(d)/len(d) if d else 0.0, kept as the exact fraction
Mean(d) == IF d = <<>> THEN [sum |-> 0, n |-> 1] ELSE [sum |-> Sum(d), n |-> Len(d)]

\* A defaultdict holds a key once it has been written; counters only grow
\* and deques never empty, so a key is present iff its value is not the
\* default.
CounterPresent(rt) == { k \in CounterKeys : rt[k] > 0 }
LatencyPresent(rd) == { k \in LatencyKeys : rd[k] # <<>> }

\* ---------------------------------------------------------------------
\* Conditional cache of list_apps
\* ---------------------------------------------------------------------
NoHeader == <<>>

Totals == 0..1
Mtimes == 0..1
Fingerprints == { "fpA", "fpB" }

\* sha256 of f"{total}:{mtime}:{params_fingerprint}", truncated: a digest
\* that differs whenever the hashed text differs (collisions aside).
_etag_for_list(total, mtime, params_fingerprint) ==
  <<"W/", total, mtime, params_fingerprint>>

\* time.strftime("%a, %d %b %Y %H:%M:%S GMT", time.gmtime(mtime))
HttpDate(mtime) == <<"GMT", mtime>>

ETagValues == { _etag_for_list(t, m, f) : t \in Totals, m \in Mtimes, f \in Fingerprints }
InmValues == { NoHeader } \cup ETagValues
ImsValues == { NoHeader, <<"">> } \cup { HttpDate(m) : m \in Mtimes }

\* A header value that Python treats as true: not None and not "".
Truthy(h) == h # NoHeader /\ h # <<"">>

\* if inm == etag or (ims and ims == last_mod_http): 304
NotModified(inm, ims, etag, last_mod_http) ==
  inm = etag \/ (Truthy(ims) /\ ims = last_mod_http)

\* Status of the response of list_apps, lines 367-411.
list_apps(sortOk, total, mtime, fp, inm, ims) ==
  IF ~sortOk THEN 400
  ELSE IF NotModified(inm, ims, _etag_for_list(total, mtime, fp), HttpDate(mtime))
       THEN 304 ELSE 200

\* What a list request brings (query, validators) and what the persistence
\* layer answers it (count, mtime).
ListInputs ==
  [sortOk : BOOLEAN, total : Totals, mtime : Mtimes, fp : Fingerprints,
   inm : InmValues, ims : ImsValues]

\* A list request with a valid sort and no validators.
PlainListInputs ==
  { i \in ListInputs : i.sortOk /\ i.inm = NoHeader /\ i.ims = NoHeader }

ListOutcomes(inputs) ==
  { list_apps(i.sortOk, i.total, i.mtime, i.fp, i.inm, i.ims) : i \in inputs }

AnyListOutcomes == ListOutcomes(ListInputs)
PlainListOutcomes == ListOutcomes(PlainListInputs)

\* ---------------------------------------------------------------------
\* /metrics bodies
\* ---------------------------------------------------------------------
\* The "requests_total{...} <cnt>" lines of the Prometheus text.
PromCounterLines(rt) ==
  { [method |-> k[1], path |-> k[2], status |-> k[3], value |-> rt[k]] :
      k \in CounterPresent(rt) }

\* The "request_duration_ms{...} <avg>" lines of the Prometheus text.
PromDurationLines(rd) ==
  { [method |-> k[1], path |-> k[2], value |-> Mean(rd[k])] :
      k \in LatencyPresent(rd) }

PromText(rt, rd) ==
  [format |-> "prom", requests_total |-> PromCounterLines(rt),
   request_duration_ms |-> PromDurationLines(rd)]

PlainSnapshot(rt, rd) ==
  [format |-> "plain",
   requests_total |-> { <<k, rt[k]>> : k \in CounterPresent(rt) },
   request_duration_ms |-> { <<k, Mean(rd[k])>> : k \in LatencyPresent(rd) }]

NoBody == [format |-> "none", requests_total |-> {}, request_duration_ms |-> {}]

\* ---------------------------------------------------------------------
\* Pagination links of list_apps, lines 333-342 and 395-410
\* ---------------------------------------------------------------------
\* Largest count the persistence layer reports, largest page_size and
\* largest page a request asks for, most fields in a query string.
MaxTotal == 5
MaxPageSize == 2
MaxPage == 4
MaxParams == 3

\* An optional value: <<>> is None, <<v>> is the value v.
None == <<>>
Some(v) == <<v>>

\* The netloc of str(request.url), a list of its pieces; Starlette takes it
\* from the Host header as the client sent it.
Netlocs == { <<"example.com">>, <<"[", "::1", "]">>, <<"[", "::1">> }

Has(piece, netloc) == \E i \in 1..Len(netloc) : netloc[i] = piece

\* urlsplit raises ValueError("Invalid IPv6 URL") on a netloc that has one
\* of the two brackets without the other.
urlsplit_raises(netloc) ==
  \/ Has("[", netloc) /\ ~Has("]", netloc)
  \/ Has("]", netloc) /\ ~Has("[", netloc)

\* str(n) and int(s) for the page numbers, one decimal digit each.
DecimalDigits == << "0", "1", "2", "3", "4", "5", "6", "7", "8", "9" >>
str(n) == DecimalDigits[n + 1]
int(s) == (CHOOSE i \in 1..Len(DecimalDigits) : DecimalDigits[i] = s) - 1

\* The value of a field as it stands in the query string.
RawValues == { "", "a", "x+y", "x%20y" }

\* unquote_plus, as parse_qsl applies it to a value; digits and letters
\* stand for themselves.
Decode(raw) == IF raw \in {"x+y", "x%20y"} THEN "x y" ELSE raw

\* quote_plus(v), as urlencode applies it to a value.
Encode(v) == IF v = "x y" THEN "x+y" ELSE v

\* One name=value field of a query string.
Fields ==
  { <<"page", str(n)>> : n \in 1..MaxPage } \cup { <<"category", r>> : r \in RawValues }

\* The query strings: the fields in the order they are written.
Queries == UNION { [1..n -> Fields] : n \in 0..MaxParams }

\* parse_qsl(query, keep_blank_values=True): the decoded fields, in order.
parse_qsl(query) ==
  [i \in 1..Len(query) |-> <<query[i][1], Decode(query[i][2])>>]

HasKey(d, k) == \E i \in 1..Len(d) : d[i][1] = k

\* d[k] = v on a dict, which keeps its keys in the order of first insertion.
DictSet(d, k, v) ==
  IF HasKey(d, k)
  THEN [i \in 1..Len(d) |-> IF d[i][1] = k THEN <<k, v>> ELSE d[i]]
  ELSE Append(d, <<k, v>>)

\* d.pop(k, None)
DictPop(d, k) == SelectSeq(d, LAMBDA e : e[1] # k)

\* dict(pairs): a later pair of a key replaces the value of an earlier one.
RECURSIVE dict(_)
dict(pairs) ==
  IF pairs = <<>> THEN <<>>
  ELSE LET n == Len(pairs)
       IN DictSet(dict(SubSeq(pairs, 1, n - 1)), pairs[n][1], pairs[n][2])

\* The loop of lines 336-340 over overrides, a list of <<k, None | Some(v)>>;
\* urlencode turns the int it finds as a value into its str.
RECURSIVE ApplyOverrides(_, _)
ApplyOverrides(q, overrides) ==
  IF overrides = <<>> THEN q
  ELSE LET k == Head(overrides)[1]
           v == Head(overrides)[2]
       IN ApplyOverrides(IF v = None THEN DictPop(q, k) ELSE DictSet(q, k, str(v[1])),
                         Tail(overrides))

\* urlencode(q, doseq=True): every value of q is a str or an int, so each
\* key gives one field.
urlencode(q) == [i \in 1..Len(q) |-> <<q[i][1], Encode(q[i][2])>>]

\* _with_params(url, overrides), lines 333-342: the URL it returns, or the
\* exception of urlsplit.
_with_params(url, overrides) ==
  IF urlsplit_raises(url.netloc)
  THEN [exc |-> "ValueError", netloc |-> <<>>, query |-> <<>>]
  ELSE [exc |-> "none", netloc |-> url.netloc,
        query |-> urlencode(ApplyOverrides(dict(parse_qsl(url.query)), overrides))]

Max(a, b) == IF a >= b THEN a ELSE b

\* total_pages with the floor in place of the ceiling.
total_pages_floor(total, page_size) == Max(1, total \div page_size)

\* total_pages = max(1, (total + page_size - 1) // page_size), line 396
total_pages(total, page_size) == Max(1, (total + page_size - 1) \div page_size)

\* page: int = Query(1, ge=1): the last page field of the query, 1 without.
PageOf(query) ==
  LET d == dict(parse_qsl(query))
  IN IF HasKey(d, "page")
     THEN int((CHOOSE e \in { d[i] : i \in 1..Len(d) } : e[1] = "page")[2])
     ELSE 1

\* rel of the Link header entries, lines 406-410.
LinkHeader(next_url, prev_url) ==
  (IF next_url # None THEN <<"next">> ELSE <<>>) \o
  (IF prev_url # None THEN <<"prev">> ELSE <<>>)

\* Lines 394-411 of list_apps on the path that answers in full: the
\* response, or the exception that leaves the endpoint.
ListResponse(base_url, page, page_size, total) ==
  LET wantNext == page < total_pages(total, page_size)
      wantPrev == page > 1
      n == _with_params(base_url, << <<"page", Some(page + 1)>> >>)
      p == _with_params(base_url, << <<"page", Some(page - 1)>> >>)
  IN IF (wantNext /\ n.exc # "none") \/ (wantPrev /\ p.exc # "none")
     THEN [exc |-> "ValueError", status |-> 0, items |-> FALSE, validators |-> FALSE,
           next_url |-> None, prev_url |-> None, link |-> <<>>]
     ELSE LET next_url == IF wantNext THEN Some(n) ELSE None
              prev_url == IF wantPrev THEN Some(p) ELSE None
          IN [exc |-> "none", status |-> 200, items |-> TRUE, validators |-> TRUE,
              next_url |-> next_url, prev_url |-> prev_url,
              link |-> LinkHeader(next_url, prev_url)]

NoResponse ==
  [exc |-> "none", status |-> 0, items |-> FALSE, validators |-> FALSE,
   next_url |-> None, prev_url |-> None, link |-> <<>>]

\* ---------------------------------------------------------------------
\* params_fingerprint of list_apps, line 375
\* ---------------------------------------------------------------------
\* Longest text of a query parameter, in pieces.
MaxTextLen == 2

\* A text is a list of pieces: a letter, the character "|", or the four
\* letters "None".
Pieces == { "a", "|", "None" }
Texts == UNION { [1..n -> Pieces] : n \in 0..MaxTextLen }

\* Optional[str] = Query(None): None when the query has no such field.
OptionalTexts == { None } \cup { Some(t) : t \in Texts }

\* The parameters of list_apps as FastAPI hands them over; min_rating,
\* sort_by, sort_dir, page and page_size at their defaults.
ListParams ==
  [q : OptionalTexts, category : OptionalTexts,
   platform : { None, Some(<<"ios">>) },
   min_rating : { <<"0.0">> }, sort_by : { <<"rating">> }, sort_dir : { <<"desc">> },
   page : { <<"1">> }, page_size : { <<"5">> }]

DefaultParams ==
  [q |-> None, category |-> None, platform |-> None,
   min_rating |-> <<"0.0">>, sort_by |-> <<"rating">>, sort_dir |-> <<"desc">>,
   page |-> <<"1">>, page_size |-> <<"5">>]

\* "{v}" in an f-string: the text itself, "None" for None.
Format(v) == IF v = None THEN <<"None">> ELSE v[1]

\* f"{q}|{category}|{platform}|{min_rating}|{sort_by}|{sort_dir}|{page}|{page_size}"
params_fingerprint(p) ==
  Format(p.q) \o <<"|">> \o Format(p.category) \o <<"|">> \o Format(p.platform)
    \o <<"|">> \o p.min_rating \o <<"|">> \o p.sort_by \o <<"|">> \o p.sort_dir
    \o <<"|">> \o p.page \o <<"|">> \o p.page_size

\* ---------------------------------------------------------------------
\* Middleware timing_and_logging, lines 128-140
\* ---------------------------------------------------------------------
\* Exceptions that "except Exception" catches; asyncio.CancelledError is a
\* BaseException and is not among them.
OrdinaryExceptions == { "OperationalError", "NameError", "RuntimeError" }

\* StatusAtFinally without line 133: the except block binds no status.
StatusWithoutSentinel(resp, exc) ==
  IF exc = "none" THEN resp ELSE 0

\* The local variable status when the finally block starts; 0 = unbound.
StatusAtFinally(resp, exc) ==
  IF exc = "none" THEN resp
  ELSE IF exc \in OrdinaryExceptions THEN 500
  ELSE 0

\* What leaves the middleware: "none" for a returned response, otherwise
\* the exception.  Line 138 reads status; when it is unbound the finally
\* block raises UnboundLocalError in place of the exception in flight.
Propagated(exc, status) ==
  IF status = 0 THEN "UnboundLocalError" ELSE exc

\* ---------------------------------------------------------------------
\* State
\* ---------------------------------------------------------------------
VARIABLES
  ADMIN_TOKEN,          \* line 18, fixed at process start
  now,                  \* the value datetime.utcnow() returns
  hits,                 \* line 69: (ip, kind) -> deque of admit times
  requests_total,       \* line 63: (method, path, status) -> count
  request_duration_ms,  \* line 64: (method, path) -> bounded deque
  req,                  \* the requests in flight, one per slot
  arrivals,             \* history: requests that entered the pipeline
  admitLog,             \* history: per key, the times of every admitted call
  lastReject,           \* history: per key, the time of the last rejected call, -1 if none
  completed,            \* history: (method, path) -> requests that ran to a response or a failure
  ev,                   \* one evaluation of the list_apps cache decision
  pg,                   \* one list request and the links list_apps builds for it
  db,                   \* the SQLite file: its rows and its modification time
  cl,                   \* a client's cached copy of one list query and its validators
  fq                    \* two list queries and their params_fingerprint

vars == <<ADMIN_TOKEN, now, hits, requests_total, request_duration_ms, req,
          arrivals, admitLog, lastReject, completed, ev, pg, db, cl, fq>>

\* pc of a request:
\*   idle        no request in the slot
\*   received    timing_and_logging awaits call_next; no dependency ran yet
\*   authed      require_admin returned
\*   dispatched  every dependency returned; the endpoint is to run
\*   iterating   metrics() is iterating requests_total.items() (line 504)
\*   returned    call_next has a response or an exception for the middleware
\*   responded   the middleware has returned or raised
IdleReq ==
  [pc |-> "idle", route |-> "none", ip |-> "", resp |-> 0, exc |-> "none",
   status |-> 0, raised |-> "none", incs |-> 0, samples |-> 0,
   rateChecked |-> FALSE, early |-> FALSE, admitted |-> FALSE,
   fmt |-> "none", iter |-> 0, body |-> NoBody, detail |-> <<>>]

EvInputs ==
  [sortOk : {TRUE}, total : Totals, mtime : Mtimes, fp : Fingerprints,
   inm : InmValues, ims : ImsValues, outcome : {0}]

EvIdle ==
  [sortOk |-> TRUE, total |-> 0, mtime |-> 0, fp |-> "fpA",
   inm |-> NoHeader, ims |-> NoHeader, outcome |-> 0]

InitPipeline ==
  /\ now = 0
  /\ hits = [k \in Keys |-> <<>>]
  /\ requests_total = [k \in CounterKeys |-> 0]
  /\ request_duration_ms = [k \in LatencyKeys |-> <<>>]
  /\ req = [s \in Slots |-> IdleReq]
  /\ arrivals = 0
  /\ admitLog = [k \in Keys |-> <<>>]
  /\ lastReject = [k \in Keys |-> -1]
  /\ completed = [k \in LatencyKeys |-> 0]

\* The database file after bootstrap: revision 0 of the rows, no row that
\* matches the list query, written in second 0.
DbIdle == [rev |-> 0, total |-> 0, mtime |-> 0]

\* A client that holds no copy of the list yet.
ClIdle ==
  [inm |-> NoHeader, ims |-> NoHeader, rev |-> -1, servedRev |-> -1, last |-> 0]

\* No list query fingerprinted yet.
FqIdle == [a |-> DefaultParams, b |-> DefaultParams, fa |-> <<>>, fb |-> <<>>, done |-> FALSE]

PgIdle ==
  [netloc |-> <<"example.com">>, query |-> <<>>, page_size |-> 1, total |-> 0,
   done |-> FALSE, out |-> NoResponse]

\* Either deployment: admin token set, or empty (dev mode).
Init ==
  /\ ADMIN_TOKEN \in AdminTokens
  /\ InitPipeline
  /\ ev = EvIdle
  /\ pg = PgIdle
  /\ db = DbIdle
  /\ cl = ClIdle
  /\ fq = FqIdle

Route(s) == RouteTable[req[s].route]

\* ---------------------------------------------------------------------
\* Steps of one request
\* ---------------------------------------------------------------------
\* The wall clock advances.
Tick ==
  /\ now < MaxTime
  /\ now' = now + 1
  /\ UNCHANGED <<ADMIN_TOKEN, hits, requests_total, request_duration_ms, req,
                 arrivals, admitLog, lastReject, completed, ev, pg, db, cl, fq>>

\* timing_and_logging lines 125-129: a request enters and call_next starts.
Arrive(s, route) ==
  /\ arrivals < MaxRequests
  /\ req[s].pc = "idle"
  /\ \A t \in Slots : t < s => req[t].pc # "idle"
  /\ req' = [req EXCEPT ![s] = [IdleReq EXCEPT !.pc = "received", !.route = route]]
  /\ arrivals' = arrivals + 1
  /\ UNCHANGED <<ADMIN_TOKEN, now, hits, requests_total, request_duration_ms,
                 admitLog, lastReject, completed, ev, pg, db, cl, fq>>

\* Depends(require_admin), lines 104-110, first in the dependency list.
Auth(s, parts) ==
  /\ req[s].pc = "received"
  /\ Route(s).admin
  /\ req' = [req EXCEPT ![s] =
       IF require_admin(ADMIN_TOKEN, parts)
       THEN [@ EXCEPT !.pc = "authed", !.early = ~req[s].rateChecked]
       ELSE [@ EXCEPT !.pc = "returned", !.resp = 401, !.early = ~req[s].rateChecked]]
  /\ UNCHANGED <<ADMIN_TOKEN, now, hits, requests_total, request_duration_ms,
                 arrivals, admitLog, lastReject, completed, ev, pg, db, cl, fq>>

\* RateCheck with Depends(rate_limiter(kind)) listed ahead of
\* Depends(require_admin): the limiter decides first, the admin check of an
\* admitted request follows.
RateCheckBeforeAuth(s, xfwd, host) ==
  /\ req[s].pc = "received"
  /\ ~req[s].rateChecked
  /\ Route(s).limiter # "NONE"
  /\ LET kind == Route(s).limiter
         ip == _ip_from_request(xfwd, host)
         k == key(ip, kind)
         q == Evict(hits[k], now)
     IN IF AtLimit(q, kind)
        THEN /\ hits' = [hits EXCEPT ![k] = q]
             /\ req' = [req EXCEPT ![s] =
                  [@ EXCEPT !.pc = "returned",
                            !.resp = RateLimitExceeded(kind).status_code,
                            !.detail = RateLimitExceeded(kind).detail,
                            !.ip = ip, !.rateChecked = TRUE]]
             /\ lastReject' = [lastReject EXCEPT ![k] = now]
             /\ UNCHANGED admitLog
        ELSE /\ hits' = [hits EXCEPT ![k] = Append(q, now)]
             /\ req' = [req EXCEPT ![s] =
                  [@ EXCEPT !.pc = IF Route(s).admin THEN "received" ELSE "dispatched",
                            !.ip = ip, !.rateChecked = TRUE, !.admitted = TRUE]]
             /\ admitLog' = [admitLog EXCEPT ![k] = Append(@, now)]
             /\ UNCHANGED lastReject
  /\ UNCHANGED <<ADMIN_TOKEN, now, requests_total, request_duration_ms,
                 arrivals, completed, ev, pg, db, cl, fq>>

\* RateCheck with q.append(now) ahead of the test of the limit: a rejected
\* call leaves its timestamp in the window.
RateCheckCountsRejected(s, xfwd, host) ==
  /\ req[s].pc \in {"received", "authed"}
  /\ Route(s).limiter # "NONE"
  /\ req[s].pc = (IF Route(s).admin THEN "authed" ELSE "received")
  /\ LET kind == Route(s).limiter
         ip == _ip_from_request(xfwd, host)
         k == key(ip, kind)
         q == Append(Evict(hits[k], now), now)
     IN /\ hits' = [hits EXCEPT ![k] = q]
        /\ IF Len(q) > limit(kind)
           THEN /\ req' = [req EXCEPT ![s] =
                     [@ EXCEPT !.pc = "returned",
                               !.resp = RateLimitExceeded(kind).status_code,
                               !.detail = RateLimitExceeded(kind).detail,
                               !.ip = ip, !.rateChecked = TRUE]]
                /\ lastReject' = [lastReject EXCEPT ![k] = now]
                /\ UNCHANGED admitLog
           ELSE /\ req' = [req EXCEPT ![s] = [@ EXCEPT !.pc = "dispatched",
                                                       !.ip = ip, !.rateChecked = TRUE,
                                                       !.admitted = TRUE]]
                /\ admitLog' = [admitLog EXCEPT ![k] = Append(@, now)]
                /\ UNCHANGED lastReject
  /\ UNCHANGED <<ADMIN_TOKEN, now, requests_total, request_duration_ms,
                 arrivals, completed, ev, pg, db, cl, fq>>

\* Depends(rate_limiter(kind)), lines 81-91.
RateCheck(s, xfwd, host) ==
  /\ req[s].pc \in {"received", "authed"}
  /\ Route(s).limiter # "NONE"
  /\ req[s].pc = (IF Route(s).admin THEN "authed" ELSE "received")
  /\ LET kind == Route(s).limiter
         ip == _ip_from_request(xfwd, host)
         k == key(ip, kind)
         q == Evict(hits[k], now)
     IN IF AtLimit(q, kind)
        THEN /\ hits' = [hits EXCEPT ![k] = q]
             /\ req' = [req EXCEPT ![s] =
                  [@ EXCEPT !.pc = "returned",
                            !.resp = RateLimitExceeded(kind).status_code,
                            !.detail = RateLimitExceeded(kind).detail,
                            !.ip = ip, !.rateChecked = TRUE]]
             /\ lastReject' = [lastReject EXCEPT ![k] = now]
             /\ UNCHANGED admitLog
        ELSE /\ hits' = [hits EXCEPT ![k] = Append(q, now)]
             /\ req' = [req EXCEPT ![s] = [@ EXCEPT !.pc = "dispatched",
                                                    !.ip = ip, !.rateChecked = TRUE,
                                                    !.admitted = TRUE]]
             /\ admitLog' = [admitLog EXCEPT ![k] = Append(@, now)]
             /\ UNCHANGED lastReject
  /\ UNCHANGED <<ADMIN_TOKEN, now, requests_total, request_duration_ms,
                 arrivals, completed, ev, pg, db, cl, fq>>

\* Endpoint list_apps, lines 356-411: the persistence layer supplies the
\* count and the mtime, the request its query and its validators.
ListApps(s, outcome) ==
  /\ req[s].pc = "dispatched"
  /\ req[s].route = "list"
  /\ req' = [req EXCEPT ![s] = [@ EXCEPT !.pc = "returned", !.resp = outcome]]
  /\ UNCHANGED <<ADMIN_TOKEN, now, hits, requests_total, request_duration_ms,
                 arrivals, admitLog, lastReject, completed, ev, pg, db, cl, fq>>

\* Endpoint create_app, lines 437-450.
CreateApp(s, exists) ==
  /\ req[s].pc = "dispatched"
  /\ req[s].route = "create"
  /\ req' = [req EXCEPT ![s] = [@ EXCEPT !.pc = "returned",
               !.resp = IF exists THEN 409 ELSE 201]]
  /\ UNCHANGED <<ADMIN_TOKEN, now, hits, requests_total, request_duration_ms,
                 arrivals, admitLog, lastReject, completed, ev, pg, db, cl, fq>>

\* An endpoint that uses the database raises (the session or a query fails).
EndpointRaises(s) ==
  /\ req[s].pc = "dispatched"
  /\ req[s].route \in {"list", "create"}
  /\ req' = [req EXCEPT ![s] = [@ EXCEPT !.pc = "returned", !.exc = "OperationalError"]]
  /\ UNCHANGED <<ADMIN_TOKEN, now, hits, requests_total, request_duration_ms,
                 arrivals, admitLog, lastReject, completed, ev, pg, db, cl, fq>>

\* Endpoint metrics with format == "prom", lines 492-503.  The loop of line
\* 500 binds dq and line 501 reads d, a name bound nowhere in that scope: the
\* first latency key raises NameError.  sorted(...items()) copies each dict
\* in one C call, so the branch sees one state of the two dicts.
MetricsProm(s) ==
  /\ req[s].pc = "received"
  /\ req[s].route = "metrics"
  /\ req' = [req EXCEPT ![s] =
       IF LatencyPresent(request_duration_ms) = {}
       THEN [@ EXCEPT !.pc = "returned", !.resp = 200, !.fmt = "prom", !.early = TRUE,
                      !.body = PromText(requests_total, request_duration_ms)]
       ELSE [@ EXCEPT !.pc = "returned", !.exc = "NameError", !.fmt = "prom",
                      !.early = TRUE]]
  /\ UNCHANGED <<ADMIN_TOKEN, now, hits, requests_total, request_duration_ms,
                 arrivals, admitLog, lastReject, completed, ev, pg, db, cl, fq>>

\* Endpoint metrics, any other format, line 504: the comprehension starts to
\* iterate requests_total.items() in a worker thread.
MetricsPlainBegin(s) ==
  /\ req[s].pc = "received"
  /\ req[s].route = "metrics"
  /\ req' = [req EXCEPT ![s] = [@ EXCEPT !.pc = "iterating", !.fmt = "plain",
               !.early = TRUE,
               !.iter = Cardinality(CounterPresent(requests_total))]]
  /\ UNCHANGED <<ADMIN_TOKEN, now, hits, requests_total, request_duration_ms,
                 arrivals, admitLog, lastReject, completed, ev, pg, db, cl, fq>>

\* Lines 504-506: the iteration goes on.  A dict that the event loop thread
\* gave a new key since the iterator was made raises RuntimeError
\* ("dictionary changed size during iteration").
MetricsPlainEnd(s) ==
  /\ req[s].pc = "iterating"
  /\ req' = [req EXCEPT ![s] =
       IF Cardinality(CounterPresent(requests_total)) # req[s].iter
       THEN [@ EXCEPT !.pc = "returned", !.exc = "RuntimeError"]
       ELSE [@ EXCEPT !.pc = "returned", !.resp = 200,
                      !.body = PlainSnapshot(requests_total, request_duration_ms)]]
  /\ UNCHANGED <<ADMIN_TOKEN, now, hits, requests_total, request_duration_ms,
                 arrivals, admitLog, lastReject, completed, ev, pg, db, cl, fq>>

\* The task that runs the request is cancelled while the middleware awaits
\* call_next (client gone, timeout, shutdown): the await raises
\* asyncio.CancelledError.
Cancel(s) ==
  /\ req[s].pc \in {"received", "authed", "dispatched", "iterating"}
  /\ req' = [req EXCEPT ![s] = [@ EXCEPT !.pc = "returned", !.exc = "CancelledError"]]
  /\ UNCHANGED <<ADMIN_TOKEN, now, hits, requests_total, request_duration_ms,
                 arrivals, admitLog, lastReject, completed, ev, pg, db, cl, fq>>

\* timing_and_logging lines 130-140: the await of call_next is over; the
\* try, except and finally blocks run without a further await.
Record(s, dt_ms) ==
  /\ req[s].pc = "returned"
  /\ LET status == StatusAtFinally(req[s].resp, req[s].exc)
         m == Route(s).method
         p == Route(s).path
     IN /\ IF status # 0
           THEN /\ requests_total' =
                     [requests_total EXCEPT ![<<m, p, status>>] = @ + 1]
                /\ request_duration_ms' =
                     [request_duration_ms EXCEPT ![<<m, p>>] = AppendBounded(@, dt_ms)]
           ELSE UNCHANGED <<requests_total, request_duration_ms>>
        /\ req' = [req EXCEPT ![s] = [IdleReq EXCEPT !.pc = "responded",
                     !.route = req[s].route,
                     !.resp = req[s].resp,
                     !.exc = req[s].exc,
                     !.body = req[s].body,
                     !.detail = req[s].detail,
                     !.status = status,
                     !.raised = Propagated(req[s].exc, status),
                     !.incs = IF status # 0 THEN 1 ELSE 0,
                     !.samples = IF status # 0 THEN 1 ELSE 0]]
        /\ completed' = [completed EXCEPT ![<<m, p>>] =
                          IF req[s].exc = "CancelledError" THEN @ ELSE @ + 1]
  /\ UNCHANGED <<ADMIN_TOKEN, now, hits, arrivals, admitLog, lastReject, ev, pg, db, cl, fq>>

\* The transport layer has the response or the exception; the slot is free.
Release(s) ==
  /\ req[s].pc = "responded"
  /\ req' = [req EXCEPT ![s] = IdleReq]
  /\ UNCHANGED <<ADMIN_TOKEN, now, hits, requests_total, request_duration_ms,
                 arrivals, admitLog, lastReject, completed, ev, pg, db, cl, fq>>

\* Every route, every request header and every endpoint outcome, within one
\* tick of the wall clock.
Next ==
  \/ \E s \in Slots, route \in Routes : Arrive(s, route)
  \/ \E s \in Slots, parts \in Authorizations : Auth(s, parts)
  \/ \E s \in Slots : RateCheck(s, <<>>, "10.0.0.1")
  \/ \E s \in Slots, outcome \in AnyListOutcomes : ListApps(s, outcome)
  \/ \E s \in Slots, exists \in BOOLEAN : CreateApp(s, exists)
  \/ \E s \in Slots : EndpointRaises(s)
  \/ \E s \in Slots : MetricsProm(s)
  \/ \E s \in Slots : MetricsPlainBegin(s)
  \/ \E s \in Slots : MetricsPlainEnd(s)
  \/ \E s \in Slots : Cancel(s)
  \/ \E s \in Slots, dt_ms \in Durations : Record(s, dt_ms)
  \/ \E s \in Slots : Release(s)

Spec == Init /\ [][Next]_vars

\* The rate-limited routes under a moving clock and two clients; the
\* endpoints answer plain requests and do not fail.
NextLimiter ==
  \/ Tick
  \/ \E s \in Slots, route \in {"list", "create"} : Arrive(s, route)
  \/ \E s \in Slots, parts \in Authorizations : Auth(s, parts)
  \/ \E s \in Slots, xfwd \in XForwardedFor, host \in ClientHosts : RateCheck(s, xfwd, host)
  \/ \E s \in Slots, outcome \in PlainListOutcomes : ListApps(s, outcome)
  \/ \E s \in Slots : CreateApp(s, FALSE)
  \/ \E s \in Slots, dt_ms \in Durations : Record(s, dt_ms)
  \/ \E s \in Slots : Release(s)

SpecLimiter == Init /\ [][NextLimiter]_vars

\* ---------------------------------------------------------------------
\* The cache decision on its own: one evaluation for every combination of
\* count, mtime, fingerprint and validators.
\* ---------------------------------------------------------------------
InitCache ==
  /\ ADMIN_TOKEN = ""
  /\ InitPipeline
  /\ ev \in EvInputs
  /\ pg = PgIdle
  /\ db = DbIdle
  /\ cl = ClIdle
  /\ fq = FqIdle

Evaluate ==
  /\ ev.outcome = 0
  /\ ev' = [ev EXCEPT !.outcome =
              list_apps(ev.sortOk, ev.total, ev.mtime, ev.fp, ev.inm, ev.ims)]
  /\ UNCHANGED <<ADMIN_TOKEN, now, hits, requests_total, request_duration_ms, req,
                 arrivals, admitLog, lastReject, completed, pg, db, cl, fq>>

NextCache == Evaluate

SpecCache == InitCache /\ [][NextCache]_vars

\* ---------------------------------------------------------------------
\* The read limiter under a wall clock that can be set back.
\* ---------------------------------------------------------------------
\* datetime.utcnow() reads the system's wall clock, which a time
\* synchronisation or an operator can set back.
ClockStepsBack ==
  /\ now > 0
  /\ now' = now - 1
  /\ UNCHANGED <<ADMIN_TOKEN, hits, requests_total, request_duration_ms, req,
                 arrivals, admitLog, lastReject, completed, ev, pg, db, cl, fq>>

NextClock ==
  \/ Tick
  \/ ClockStepsBack
  \/ \E s \in Slots : Arrive(s, "list")
  \/ \E s \in Slots : RateCheck(s, <<>>, "10.0.0.1")
  \/ \E s \in Slots, outcome \in PlainListOutcomes : ListApps(s, outcome)
  \/ \E s \in Slots, dt_ms \in Durations : Record(s, dt_ms)
  \/ \E s \in Slots : Release(s)

SpecClock == Init /\ [][NextClock]_vars

\* ---------------------------------------------------------------------
\* One client revalidating one list query while the rows change.
\* ---------------------------------------------------------------------
\* The list query the client asks again and again.
ClientQuery == "fpA"

InitFresh ==
  /\ ADMIN_TOKEN = ""
  /\ InitPipeline
  /\ ev = EvIdle
  /\ pg = PgIdle
  /\ db \in [rev : {0}, total : Totals, mtime : {0}]
  /\ cl = ClIdle
  /\ fq = FqIdle

\* create_app, update_app or delete_app commits (lines 444, 468, 484) a
\* change to the rows the query lists: a row is added (delta 1), changed
\* (delta 0) or deleted (delta -1), and the file system stamps the file with
\* the current time, which _db_mtime cuts to a second.  rev counts the
\* versions of the listed rows.
WriteDb(delta) ==
  /\ db.rev < MaxWrites
  /\ db.total + delta \in Totals
  /\ delta = 0 => db.total > 0
  /\ db' = [rev |-> db.rev + 1, total |-> db.total + delta, mtime |-> now]
  /\ UNCHANGED <<ADMIN_TOKEN, now, hits, requests_total, request_duration_ms, req,
                 arrivals, admitLog, lastReject, completed, ev, pg, cl, fq>>

\* A commit that changes only rows the query does not list.
WriteOther ==
  /\ db.mtime # now
  /\ db' = [db EXCEPT !.mtime = now]
  /\ UNCHANGED <<ADMIN_TOKEN, now, hits, requests_total, request_duration_ms, req,
                 arrivals, admitLog, lastReject, completed, ev, pg, cl, fq>>

\* list_apps lines 372-411 for a request of the client that carries the
\* validators it holds (sendInm, sendIms: which of them).  A 200 gives the
\* client the rows as they are and new validators; after a 304 it goes on
\* using the copy it has.
Revalidate(sendInm, sendIms) ==
  LET inm == IF sendInm THEN cl.inm ELSE NoHeader
      ims == IF sendIms THEN cl.ims ELSE NoHeader
      status == list_apps(TRUE, db.total, db.mtime, ClientQuery, inm, ims)
  IN /\ cl' = IF status = 304
               THEN [cl EXCEPT !.servedRev = db.rev, !.last = 304]
               ELSE [inm |-> _etag_for_list(db.total, db.mtime, ClientQuery),
                     ims |-> HttpDate(db.mtime),
                     rev |-> db.rev, servedRev |-> db.rev, last |-> status]
     /\ UNCHANGED <<ADMIN_TOKEN, now, hits, requests_total, request_duration_ms, req,
                    arrivals, admitLog, lastReject, completed, ev, pg, db, fq>>

NextFresh ==
  \/ Tick
  \/ \E delta \in {-1, 0, 1} : WriteDb(delta)
  \/ WriteOther
  \/ \E sendInm, sendIms \in BOOLEAN : Revalidate(sendInm, sendIms)

SpecFresh == InitFresh /\ [][NextFresh]_vars

\* ---------------------------------------------------------------------
\* Two list requests and their fingerprints.
\* ---------------------------------------------------------------------
InitFingerprint ==
  /\ ADMIN_TOKEN = ""
  /\ InitPipeline
  /\ ev = EvIdle
  /\ pg = PgIdle
  /\ db = DbIdle
  /\ cl = ClIdle
  /\ fq \in [a : ListParams, b : ListParams, fa : {<<>>}, fb : {<<>>}, done : {FALSE}]

\* Line 375 for each of the two requests.
Fingerprint ==
  /\ ~fq.done
  /\ fq' = [fq EXCEPT !.fa = params_fingerprint(fq.a),
                      !.fb = params_fingerprint(fq.b),
                      !.done = TRUE]
  /\ UNCHANGED <<ADMIN_TOKEN, now, hits, requests_total, request_duration_ms, req,
                 arrivals, admitLog, lastReject, completed, ev, pg, db, cl>>

NextFingerprint == Fingerprint

SpecFingerprint == InitFingerprint /\ [][NextFingerprint]_vars

\* ---------------------------------------------------------------------
\* The link builder on its own: one list request for every base URL, count
\* and page size, answered in full.
\* ---------------------------------------------------------------------
InitLinks ==
  /\ ADMIN_TOKEN = ""
  /\ InitPipeline
  /\ ev = EvIdle
  /\ pg \in [netloc : Netlocs, query : Queries, page_size : 1..MaxPageSize,
             total : 0..MaxTotal, done : {FALSE}, out : {NoResponse}]
  /\ db = DbIdle
  /\ cl = ClIdle
  /\ fq = FqIdle

\* Lines 394-411 for the request of pg.
BuildLinks ==
  /\ ~pg.done
  /\ pg' = [pg EXCEPT !.done = TRUE,
                      !.out = ListResponse([netloc |-> pg.netloc, query |-> pg.query],
                                           PageOf(pg.query), pg.page_size, pg.total)]
  /\ UNCHANGED <<ADMIN_TOKEN, now, hits, requests_total, request_duration_ms, req,
                 arrivals, admitLog, lastReject, completed, ev, db, cl, fq>>

NextLinks == BuildLinks

SpecLinks == InitLinks /\ [][NextLinks]_vars

\* ---------------------------------------------------------------------
\* Properties
\* ---------------------------------------------------------------------
\* Number of entries of log that lie in lo..hi.
CountIn(log, lo, hi) == Cardinality({ i \in 1..Len(log) : log[i] >= lo /\ log[i] <= hi })

\* The step in which _inner decides about request s.
RateCheckStep(s) ==
  /\ req[s].pc \in {"received", "authed"}
  /\ req'[s].rateChecked

\* The step in which the middleware resumes after call_next for request s.
RecordStep(s) ==
  /\ req[s].pc = "returned"
  /\ req'[s].pc = "responded"

Min(a, b) == IF a <= b THEN a ELSE b

\* C1: sliding-window correctness.  Under a non-decreasing clock a call at
\* time now is rejected with 429 exactly when limit calls of its key admitted
\* within the window (age at most the window) are on record, and admitted
\* otherwise: the first limit calls of a window pass, the next one in the
\* same window is rejected, and once the first admitted call is older than
\* the window a call passes again.
C1_SlidingWindow ==
  [][\A s \in Slots : RateCheckStep(s) =>
       LET kind == Route(s).limiter
           k == <<req'[s].ip, kind>>
           full == CountIn(admitLog[k], now - window, now) >= limit(kind)
       IN /\ (req'[s].resp = 429) <=> full
          /\ req'[s].admitted <=> ~full
          /\ req'[s].admitted => req'[s].pc = "dispatched"]_vars

\* C1 witness: a key whose first limit calls were admitted within one window,
\* whose next call in that window was rejected, and which was admitted again
\* after the first admitted call had aged past the window.
C1_Witness ==
  \E k \in Keys :
    LET L == limit(k[2]) IN
      /\ Len(admitLog[k]) = L + 1
      /\ admitLog[k][L] - admitLog[k][1] <= window
      /\ lastReject[k] >= admitLog[k][L]
      /\ lastReject[k] - admitLog[k][1] <= window
      /\ admitLog[k][L + 1] - admitLog[k][1] > window
      /\ admitLog[k][L + 1] >= lastReject[k]

\* C2: admission is linearizable per key.  Whatever the interleaving of the
\* requests in flight, no window of the clock holds more than limit admitted
\* calls of one key.
C2_NoOverAdmit ==
  \A k \in Keys : \A T \in 0..now :
    CountIn(admitLog[k], T - window, T) <= limit(k[2])

\* C2 witness: two requests of one key in flight together at one time, the
\* key's budget used up, one of the two admitted and the other rejected.
C2_Witness ==
  \E s, t \in Slots :
    /\ s # t
    /\ req[s].pc = "dispatched" /\ req[s].admitted
    /\ req[t].pc = "returned" /\ req[t].resp = 429
    /\ req[s].ip = req[t].ip
    /\ Route(s).limiter = Route(t).limiter
    /\ LET k == <<req[s].ip, Route(s).limiter>> IN
         /\ Len(admitLog[k]) = limit(k[2])
         /\ lastReject[k] = now
         /\ admitLog[k][Len(admitLog[k])] = now

\* C7: class isolation.  A step changes the hit window of a key only when it
\* is the admit decision of a request of that client and that class, and a
\* read is admitted whenever fewer than the read limit of the client's own
\* admitted reads lie in the window, whatever the state of its write window.
C7_ClassIsolation ==
  [][/\ \A k \in Keys : hits'[k] # hits[k] =>
          \E s \in Slots : /\ RateCheckStep(s)
                           /\ req'[s].ip = k[1]
                           /\ Route(s).limiter = k[2]
     /\ \A s \in Slots :
          (RateCheckStep(s) /\ Route(s).limiter = "GET"
             /\ CountIn(admitLog[<<req'[s].ip, "GET">>], now - window, now) < RATE_LIMIT_GET)
          => req'[s].admitted]_vars

\* C7 witness: a client whose write budget is used up (a write was rejected
\* and the write window is still full) and whose read was admitted after
\* that rejection.
C7_Witness ==
  \E ip \in ClientIPs :
    LET w == <<ip, "WRITE">>
        r == <<ip, "GET">>
    IN /\ lastReject[w] >= 0
       /\ Len(Evict(hits[w], now)) >= RATE_LIMIT_WRITE
       /\ admitLog[r] # <<>>
       /\ admitLog[r][Len(admitLog[r])] >= lastReject[w]
       /\ admitLog[r][Len(admitLog[r])] = now


\* Sum of the counters of one (method, path) over every status.
SumStatuses(k) ==
  Sum([i \in 1..Len(StatusList) |-> requests_total[<<k[1], k[2], StatusList[i]>>]])

\* C3: exactly one metrics record per request.  Every request that has left
\* the middleware, with a response, a 429 or an exception, has caused exactly
\* one counter increment and exactly one latency sample.
C3_ExactlyOneRecord ==
  \A s \in Slots : req[s].pc = "responded" =>
    /\ req[s].incs = 1
    /\ req[s].samples = 1

\* C4: conditional-cache decision.  A list request with a valid sort is
\* answered 304 exactly when If-None-Match equals the ETag, or If-None-Match
\* is absent and If-Modified-Since equals the Last-Modified string; every
\* other combination is answered in full.
C4_CacheDecision ==
  (ev.outcome # 0 /\ ev.sortOk) =>
    LET etag == _etag_for_list(ev.total, ev.mtime, ev.fp)
        last_mod_http == HttpDate(ev.mtime)
    IN (ev.outcome = 304) <=>
         \/ ev.inm = etag
         \/ (ev.inm = NoHeader /\ ev.ims = last_mod_http)

\* The class the pipeline is to file a method under.
ClassOf(method) == IF method \in {"GET", "HEAD"} THEN "GET" ELSE "WRITE"

\* C5: every request passes the rate limiter first.  A request that has had
\* its admin check, has reached its endpoint or has an answer has had an
\* admit decision, under the class of its method, before any of that.
C5_LimiterFirst ==
  \A s \in Slots :
    req[s].pc \in {"authed", "dispatched", "iterating", "returned"} =>
      \/ req[s].exc = "CancelledError" /\ ~req[s].early
      \/ /\ req[s].rateChecked
         /\ ~req[s].early
         /\ Route(s).limiter = ClassOf(Route(s).method)

\* C6: cancellation still records metrics.  A request whose call_next was
\* cancelled leaves the middleware with one counter increment and one latency
\* sample recorded and with the cancellation itself propagating.
C6_CancelRecorded ==
  \A s \in Slots :
    (req[s].pc = "responded" /\ req[s].exc = "CancelledError") =>
      /\ req[s].incs = 1
      /\ req[s].samples = 1
      /\ req[s].raised = "CancelledError"

\* C8: metrics totality.  For every (method, path), with N the number of
\* its requests that ran to a response (success, 429 or another status) or
\* to a failure of the endpoint, the counters over all statuses add up to N
\* and the latency deque holds min(N, capacity) samples.
C8_MetricsTotality ==
  \A k \in LatencyKeys :
    /\ SumStatuses(k) = completed[k]
    /\ Len(request_duration_ms[k]) = Min(completed[k], LATENCY_MAXLEN)

\* C8 witness: a (method, path) with more completed requests than the deque
\* holds, among them a success, a rate-limit rejection and a failure.
C8_Witness ==
  \E k \in LatencyKeys :
    /\ completed[k] > LATENCY_MAXLEN
    /\ requests_total[<<k[1], k[2], 200>>] >= 1
    /\ requests_total[<<k[1], k[2], 429>>] >= 1
    /\ requests_total[<<k[1], k[2], 500>>] >= 1
    /\ Len(request_duration_ms[k]) = LATENCY_MAXLEN

\* C9: downstream failure handling.  When call_next raised an ordinary
\* exception, the middleware adds one to the counter of status 500 of the
\* request's method and path and to no other counter, appends one latency
\* sample, and raises that same exception.
C9_FailureRecordedAndReraised ==
  [][\A s \in Slots :
       (RecordStep(s) /\ req[s].exc \in OrdinaryExceptions) =>
         LET m == Route(s).method
             p == Route(s).path
         IN /\ requests_total' =
                 [requests_total EXCEPT ![<<m, p, 500>>] = @ + 1]
            /\ \E dt \in Durations :
                 request_duration_ms' =
                   [request_duration_ms EXCEPT ![<<m, p>>] = AppendBounded(@, dt)]
            /\ req'[s].status = 500
            /\ req'[s].raised = req[s].exc]_vars

\* C9 witness: a request whose endpoint raised has left the middleware with
\* status 500 recorded and the endpoint's exception propagating.
C9_Witness ==
  \E s \in Slots :
    /\ req[s].pc = "responded"
    /\ req[s].exc = "OperationalError"
    /\ req[s].raised = "OperationalError"
    /\ req[s].status = 500
    /\ requests_total[<<Route(s).method, Route(s).path, 500>>] >= 1

\* The step in which metrics() of request s returns or raises.
MetricsStep(s) ==
  /\ req[s].pc \in {"received", "iterating"}
  /\ req[s].route = "metrics"
  /\ req'[s].pc = "returned"
  /\ req'[s].exc # "CancelledError"

\* C10: the metrics endpoint serves both formats at any time.  Whatever has
\* been recorded, metrics() returns 200 in either format, the Prometheus text
\* holding one requests_total line per counter key with its count and one
\* request_duration_ms line per latency key with the mean of its samples.
C10_MetricsServed ==
  [][\A s \in Slots : MetricsStep(s) =>
       /\ req'[s].resp = 200
       /\ req'[s].fmt = "prom" =>
            req'[s].body = PromText(requests_total, request_duration_ms)
       /\ req'[s].fmt = "plain" =>
            req'[s].body = PlainSnapshot(requests_total, request_duration_ms)]_vars

\* The least n with n * b >= a: the ceiling of a / b.
Ceil(a, b) == CHOOSE n \in 0..a : n * b >= a /\ \A m \in 0..a : m * b >= a => n <= m

\* The page fields of a URL, in order.
PageFields(url) == SelectSeq(url.query, LAMBDA f : f[1] = "page")

\* link is present and its URL has page as its one page field.
PointsTo(link, page) ==
  link # None /\ PageFields(link[1]) = << <<"page", str(page)>> >>

\* C11: pagination link presence.  With totalPages = max(1, ceil(total /
\* pageSize)), a list response carries a next link exactly when page <
\* totalPages, and that link points to page + 1; it carries a prev link
\* exactly when page > 1, and that link points to page - 1.
C11_LinkPresence ==
  (pg.done /\ pg.out.exc = "none") =>
    LET page == PageOf(pg.query)
        totalPages == Max(1, Ceil(pg.total, pg.page_size))
    IN /\ (pg.out.next_url # None) <=> (page < totalPages)
       /\ (pg.out.next_url # None) => PointsTo(pg.out.next_url, page + 1)
       /\ (pg.out.prev_url # None) <=> (page > 1)
       /\ (pg.out.prev_url # None) => PointsTo(pg.out.prev_url, page - 1)
       /\ pg.out.link = LinkHeader(pg.out.next_url, pg.out.prev_url)

\* C11 witness: a count that is not a multiple of the page size; the last
\* page, short of a full one, answered with a prev link and no next link.
C11_Witness ==
  /\ pg.done
  /\ pg.out.exc = "none"
  /\ pg.total % pg.page_size # 0
  /\ PageOf(pg.query) > 1
  /\ PageOf(pg.query) * pg.page_size > pg.total
  /\ (PageOf(pg.query) - 1) * pg.page_size < pg.total
  /\ pg.out.next_url = None
  /\ PointsTo(pg.out.prev_url, PageOf(pg.query) - 1)

\* Occurrences in query of the field k with the decoded value v.
CountField(query, k, v) ==
  Cardinality({ i \in 1..Len(query) : query[i][1] = k /\ Decode(query[i][2]) = v })

\* link keeps every field of base other than page, each occurrence with its
\* value, and has page as its one page field.
Preserves(link, base, page) ==
  /\ PointsTo(link, page)
  /\ \A f \in Fields : f[1] # "page" =>
       CountField(link[1].query, f[1], Decode(f[2])) = CountField(base, f[1], Decode(f[2]))

\* C12: the pagination rewrite preserves the query.  A next or prev URL has
\* exactly one page field, with the new value, and every other field of the
\* base URL with its value, every occurrence of a repeated key included:
\* none is dropped and none is duplicated.
C12_RewritePreservesQuery ==
  (pg.done /\ pg.out.exc = "none") =>
    /\ (pg.out.next_url # None) => Preserves(pg.out.next_url, pg.query, PageOf(pg.query) + 1)
    /\ (pg.out.prev_url # None) => Preserves(pg.out.prev_url, pg.query, PageOf(pg.query) - 1)

\* C18: link construction failure is contained.  A list request whose base
\* URL cannot be rewritten is still answered 200 with its items and its
\* validator headers, without the link that could not be built.
C18_LinkFailureContained ==
  (pg.done /\ urlsplit_raises(pg.netloc)) =>
    /\ pg.out.exc = "none"
    /\ pg.out.status = 200
    /\ pg.out.items
    /\ pg.out.validators
    /\ pg.out.next_url = None
    /\ pg.out.prev_url = None

\* Every request of the behaviour has been a GET /apps of the client ip and
\* has left the middleware, all of it within one window of the clock.
AllReadsOfOneClient(ip) ==
  /\ now <= window
  /\ arrivals = MaxRequests
  /\ completed[<<"GET", "/apps">>] = MaxRequests
  /\ \A k \in Keys \ {<<ip, "GET">>} : admitLog[k] = <<>> /\ lastReject[k] = -1

\* C13: end-to-end throttling.  Within one window a client's reads are
\* admitted up to the read limit and no read is rejected before the limit is
\* used up; when MaxRequests reads of one client to /apps, more than the read
\* limit, have all been answered within one window, the counters of GET /apps
\* show the read limit at status 200, the rest at status 429 and nothing
\* else.
C13_ThrottlingScenario ==
  /\ \A k \in Keys :
       (k[2] = "GET" /\ now <= window) =>
         /\ Len(admitLog[k]) <= RATE_LIMIT_GET
         /\ lastReject[k] >= 0 => Len(admitLog[k]) = RATE_LIMIT_GET
  /\ \A ip \in ClientIPs :
       AllReadsOfOneClient(ip) =>
         /\ requests_total[<<"GET", "/apps", 200>>] = Min(MaxRequests, RATE_LIMIT_GET)
         /\ requests_total[<<"GET", "/apps", 429>>] =
              MaxRequests - Min(MaxRequests, RATE_LIMIT_GET)
         /\ \A st \in Statuses \ {200, 429} : requests_total[<<"GET", "/apps", st>>] = 0

\* C13 witness: the scenario has run: more reads than the limit from one
\* client within one window, all answered, some of them with 429.
C13_Witness ==
  \E ip \in ClientIPs :
    /\ AllReadsOfOneClient(ip)
    /\ MaxRequests > RATE_LIMIT_GET
    /\ requests_total[<<"GET", "/apps", 200>>] = RATE_LIMIT_GET
    /\ requests_total[<<"GET", "/apps", 429>>] = MaxRequests - RATE_LIMIT_GET
    /\ \A s \in Slots : req[s].pc = "idle"

\* C14: eviction boundary.  An admit call at time now leaves in the window
\* of its key no hit with a timestamp <= now - window, and a client at its
\* limit whose oldest hit is exactly one window old is admitted.
C14_EvictionBoundary ==
  [][\A s \in Slots : RateCheckStep(s) =>
       LET kind == Route(s).limiter
           k == <<req'[s].ip, kind>>
       IN /\ \A i \in 1..Len(hits'[k]) : hits'[k][i] > now - window
          /\ (/\ Len(hits[k]) = limit(kind)
              /\ hits[k][1] = now - window) => req'[s].admitted]_vars

\* C15: no stale not-modified answer.  A request that carries the validators
\* of an earlier response is answered 304 only when the rows are still those
\* of that response: after any change in between, one that keeps the count
\* or falls in the same clock second included, the answer is the full list.
C15_NoStaleNotModified ==
  cl.last = 304 => cl.servedRev = cl.rev

\* C16: fingerprint distinctness.  Two list requests have the same
\* fingerprint string exactly when their parameter tuples are the same; a
\* value that holds the separator or the text of an absent value does not
\* make two different tuples agree.
C16_FingerprintDistinct ==
  fq.done => ((fq.fa = fq.fb) <=> (fq.a = fq.b))

\* C17: a rate-limited request is short-circuited.  A request that the
\* limiter rejects has the response 429 with a detail that names its class;
\* the next thing that happens to it is the middleware's record, which counts
\* it under status 429 with one latency sample and returns that response: its
\* endpoint never runs.
C17_RejectShortCircuits ==
  [][\A s \in Slots :
       /\ (RateCheckStep(s) /\ ~req'[s].admitted) =>
            /\ req'[s].pc = "returned"
            /\ req'[s].resp = 429
            /\ req'[s].exc = "none"
            /\ req'[s].detail[2] = (IF Route(s).limiter = "GET" THEN "get" ELSE "write")
       /\ (req[s].pc = "returned" /\ req[s].resp = 429 /\ req'[s] # req[s]) =>
            /\ RecordStep(s)
            /\ req'[s].status = 429
            /\ req'[s].resp = 429
            /\ req'[s].detail = req[s].detail
            /\ req'[s].raised = "none"
            /\ req'[s].samples = 1
            /\ requests_total' =
                 [requests_total EXCEPT ![<<Route(s).method, Route(s).path, 429>>] = @ + 1]]_vars

\* C17 witness: a rejected read has left the middleware as a 429 that names
\* the class, counted once under status 429.
C17_Witness ==
  \E s \in Slots :
    /\ req[s].pc = "responded"
    /\ req[s].route = "list"
    /\ req[s].resp = 429
    /\ req[s].status = 429
    /\ req[s].detail = <<"Rate limit exceeded (", "get", "), try later">>
    /\ req[s].incs = 1
    /\ requests_total[<<"GET", "/apps", 429>>] >= 1

\* C19: hit windows are ordered.  Whatever values the time source returns,
\* the timestamps of every hit window are non-decreasing from head to tail,
\* so that no entry behind the head is older than the head.
C19_HitWindowOrdered ==
  \A k \in Keys : \A i, j \in 1..Len(hits[k]) : i < j => hits[k][i] <= hits[k][j]

\* q is what is left of p after some entries were taken from its head.
IsSuffix(q, p) == \E n \in 0..Len(p) : q = SubSeq(p, n + 1, Len(p))

\* C20: hit windows are bounded and a rejection adds nothing.  Every hit
\* window holds at most the limit of its class, and an admit call that
\* rejects leaves every other window as it was and its own window as it was
\* but for entries taken from the head.
C20_WindowBounded ==
  /\ [](\A k \in Keys : Len(hits[k]) <= limit(k[2]))
  /\ [][\A s \in Slots : (RateCheckStep(s) /\ ~req'[s].admitted) =>
          LET k == <<req'[s].ip, Route(s).limiter>>
          IN /\ \A j \in Keys \ {k} : hits'[j] = hits[j]
             /\ IsSuffix(hits'[k], hits[k])]_vars

\* C20 witness: a key whose window is full, whose latest call was rejected
\* at the present time, and whose window holds only admitted calls.
C20_Witness ==
  \E k \in Keys :
    /\ lastReject[k] = now
    /\ Len(hits[k]) = limit(k[2])
    /\ \A i \in 1..Len(hits[k]) : hits[k][i] < now
    /\ IsSuffix(hits[k], admitLog[k])

\* The step in which require_admin raises 401 for request s.
AuthFailStep(s) ==
  /\ req[s].pc = "received"
  /\ req[s].route # "none"
  /\ req'[s].pc = "returned"
  /\ req'[s].resp = 401

\* C21: a write that fails authentication is answered without the rate
\* limiter.  The 401 comes from a request of an admin route that has had no
\* admit decision, and it leaves every hit window as it was; the next thing
\* that happens to the request is the middleware's record under status 401,
\* which touches no window either; and the limiter decides about a request
\* of an admin route only after its admin check has passed, so that no
\* number of failed authentications uses up the write budget or is answered
\* 429.
C21_UnauthorizedNotThrottled ==
  [][\A s \in Slots :
       /\ AuthFailStep(s) =>
            /\ Route(s).admin
            /\ ADMIN_TOKEN # ""
            /\ ~req'[s].rateChecked
            /\ hits' = hits
            /\ admitLog' = admitLog
            /\ lastReject' = lastReject
       /\ (req[s].pc = "returned" /\ req[s].resp = 401 /\ req'[s] # req[s]) =>
            /\ RecordStep(s)
            /\ req'[s].status = 401
            /\ req'[s].resp = 401
            /\ hits' = hits
       /\ (RateCheckStep(s) /\ Route(s).admin) => req[s].pc = "authed"]_vars

\* C21 witness: more failed authentications on POST /apps than the write
\* limit have been answered 401, no write was answered 429, and the write
\* window of the client is empty.
C21_Witness ==
  /\ requests_total[<<"POST", "/apps", 401>>] > RATE_LIMIT_WRITE
  /\ requests_total[<<"POST", "/apps", 429>>] = 0
  /\ \A k \in Keys : k[2] = "WRITE" => hits[k] = <<>> /\ lastReject[k] = -1

====
